---- MODULE Spec2Model ----
(***************************************************************************)
(* Model of packages/view/src/lib.rs: a Runtime (the Bridge) whose         *)
(* __call__ tasks send Execute commands over an unbounded mpsc channel to  *)
(* one worker thread that owns the JsRuntime and answers each command on   *)
(* its oneshot channel.                                                    *)
(***************************************************************************)
EXTENDS FiniteSets, Integers, Sequences, TLC

\* ---- bounds ----
MaxCalls == 2      \* number of __call__ invocations explored
EngineMod == 4     \* the engine's global state is a counter modulo EngineMod
NThreads == 3      \* number of threads that construct a Runtime

Calls == 1..MaxCalls
Threads == 1..NThreads

\* ---- scripts (the code: String of a command) ----
\* "inc" and "dbl" return normally, "incThrow" changes the state and then
\* throws, "fault" makes execute_script panic.
Scripts == {"inc", "dbl", "incThrow", "fault"}
NoCode == "-"

\* the message of the error a script throws
ThrowMsg(code) == "boom"

NoEngine == -1
FreshEngine == 0

\* the global state after the script ran (to its end or to its throw)
ApplyScript(e, code) ==
  CASE code = "inc" -> (e + 1) % EngineMod
    [] code = "dbl" -> (2 * e) % EngineMod
    [] code = "incThrow" -> (e + 1) % EngineMod
    [] OTHER -> e

\* an execute_script whose thrown error is unwrapped into a panic
ScriptPanicsOnThrow(code) == code \in {"fault", "incThrow"}

\* Result<_, JsError> of js_runtime.execute_script
ScriptResult(code) ==
  IF code = "incThrow" THEN <<"Err", ThrowMsg(code)>> ELSE <<"Ok">>

ScriptPanics(code) == code = "fault"

\* ---- RuntimeResponse ----
Success(s) == <<"Success", s>>
Error(s) == <<"Error", s>>
NoVal == <<>>

\* an Error response that carries a fixed text without the engine's message
FormatJsErrorNoMsg(msg) == <<"JavaScript Error: ">>

\* format!("JavaScript Error: {}", js_error), as the list of its pieces
FormatJsError(msg) == <<"JavaScript Error: ", msg>>

\* match result { Ok(_) => Success("executed"), Err(e) => Error(format!(..)) }
MakeResponse(res) ==
  IF res[1] = "Ok" THEN Success("executed") ELSE Error(FormatJsError(res[2]))

\* Runtime is #[pyclass(unsendable)]: every __call__ is invoked on the thread
\* that owns the Runtime, so the invocations happen one after another; call c
\* is the c-th invocation. The futures they create run as separate tasks.

VARIABLES
  bridge,     \* the Runtime object (and its command_tx) is alive
  pc,         \* per call: position of the __call__ future
  code,       \* per call: the code argument
  reply,      \* per call: the oneshot channel [tx, val]
  queue,      \* the commands in the mpsc channel
  wpc,        \* position of the worker thread
  cur,        \* the command the worker has dequeued (cmd), or NoCmd
  result,     \* the worker's local `result`
  engine,     \* js_runtime's global state, NoEngine when there is none
  enqOrder,   \* history: calls in the order the channel accepted them
  execOrder,  \* history: calls in the order execute_script started on them
  seen,       \* history: the engine state each call's script started from
  sends,      \* history: number of response_tx.send calls per call
  late,       \* history: calls invoked after the worker thread had ended
  once,       \* V8_PLATFORM_INITIALIZED: the OnceLock's state
  inits,      \* history: number of runs of JsRuntime::init_platform
  tpc,        \* per constructing thread: position in Runtime::new
  spawned,    \* the threads whose Runtime::new has spawned its worker
  built       \* the threads whose worker has constructed its JsRuntime

\* the process-wide state of the constructions
platform == <<once, inits, tpc, spawned, built>>

vars == <<bridge, pc, code, reply, queue, wpc, cur, result, engine,
          enqOrder, execOrder, seen, sends, late, platform>>

NoCmd == [code |-> NoCode, response_tx |-> 0]
NoResult == <<>>

Range(s) == {s[i] : i \in 1..Len(s)}

Terminal == {"ok", "jserr", "terminated", "noresp"}
PcValues == {"new", "created", "waiting", "abandoned"} \cup Terminal

\* the worker thread is gone and command_rx is dropped
WorkerEnded == wpc \in {"dead", "exited"}

\* futures that borrow the Runtime's sender instead of holding a clone
SendersBridgeOnly == IF bridge THEN 1 ELSE 0

\* a worker thread that keeps a clone of command_tx for itself
SendersKeptByWorker ==
  1 + (IF bridge THEN 1 ELSE 0)
    + Cardinality({c \in Calls : pc[c] \in {"created", "waiting"}})

\* the number of live mpsc senders: the Runtime's and one clone per future
Senders ==
  (IF bridge THEN 1 ELSE 0)
    + Cardinality({c \in Calls : pc[c] \in {"created", "waiting"}})

Init ==
  /\ bridge = TRUE
  /\ pc = [c \in Calls |-> "new"]
  /\ code = [c \in Calls |-> NoCode]
  /\ reply = [c \in Calls |-> [tx |-> "none", val |-> NoVal]]
  /\ queue = <<>>
  /\ wpc = "init"
  /\ cur = NoCmd
  /\ result = NoResult
  /\ engine = NoEngine
  /\ enqOrder = <<>>
  /\ execOrder = <<>>
  /\ seen = [c \in Calls |-> NoEngine]
  /\ sends = [c \in Calls |-> 0]
  /\ late = {}
  /\ once = "done"
  /\ inits = 1
  /\ tpc = [t \in Threads |-> IF t = 1 THEN "returned" ELSE "start"]
  /\ spawned = {1}
  /\ built = {}

\* ---- caller side ----

\* a __call__ that runs the script on the caller's thread when it can
InvokeRunsInline(c, s) ==
  /\ bridge
  /\ pc[c] = "new"
  /\ \A d \in Calls : d < c => pc[d] # "new"
  /\ pc' = [pc EXCEPT ![c] = "created"]
  /\ code' = [code EXCEPT ![c] = s]
  /\ late' = IF WorkerEnded THEN late \cup {c} ELSE late
  /\ engine' = IF engine = NoEngine THEN engine ELSE ApplyScript(engine, s)
  /\ UNCHANGED <<bridge, reply, queue, wpc, cur, result,
                 enqOrder, execOrder, seen, sends>>
  /\ UNCHANGED platform

\* Runtime::__call__: clone command_tx and create the future
Invoke(c, s) ==
  /\ bridge
  /\ pc[c] = "new"
  /\ \A d \in Calls : d < c => pc[d] # "new"
  /\ pc' = [pc EXCEPT ![c] = "created"]
  /\ code' = [code EXCEPT ![c] = s]
  /\ late' = IF WorkerEnded THEN late \cup {c} ELSE late
  /\ UNCHANGED <<bridge, reply, queue, wpc, cur, result, engine,
                 enqOrder, execOrder, seen, sends>>
  /\ UNCHANGED platform

\* a bounded channel of capacity one: send waits while a command is queued
EnqueueWhenEmpty(c) ==
  /\ pc[c] = "created"
  /\ queue = <<>>
  /\ IF WorkerEnded
       THEN /\ pc' = [pc EXCEPT ![c] = "terminated"]
            /\ reply' = [reply EXCEPT ![c].tx = "dropped"]
            /\ UNCHANGED <<queue, enqOrder>>
       ELSE /\ pc' = [pc EXCEPT ![c] = "waiting"]
            /\ reply' = [reply EXCEPT ![c].tx = "live"]
            /\ queue' = Append(queue, [code |-> code[c], response_tx |-> c])
            /\ enqOrder' = Append(enqOrder, c)
  /\ UNCHANGED <<bridge, code, wpc, cur, result, engine,
                 execOrder, seen, sends, late>>
  /\ UNCHANGED platform

\* a future that ignores the error of command_tx.send and awaits the reply
EnqueueIgnoreError(c) ==
  /\ pc[c] = "created"
  /\ pc' = [pc EXCEPT ![c] = "waiting"]
  /\ IF WorkerEnded
       THEN /\ reply' = [reply EXCEPT ![c].tx = "dropped"]
            /\ UNCHANGED <<queue, enqOrder>>
       ELSE /\ reply' = [reply EXCEPT ![c].tx = "live"]
            /\ queue' = Append(queue, [code |-> code[c], response_tx |-> c])
            /\ enqOrder' = Append(enqOrder, c)
  /\ UNCHANGED <<bridge, code, wpc, cur, result, engine,
                 execOrder, seen, sends, late>>
  /\ UNCHANGED platform

\* first poll of the future: oneshot::channel(), then command_tx.send(..)
Enqueue(c) ==
  /\ pc[c] = "created"
  /\ IF WorkerEnded
       THEN /\ pc' = [pc EXCEPT ![c] = "terminated"]
            /\ reply' = [reply EXCEPT ![c].tx = "dropped"]
            /\ UNCHANGED <<queue, enqOrder>>
       ELSE /\ pc' = [pc EXCEPT ![c] = "waiting"]
            /\ reply' = [reply EXCEPT ![c].tx = "live"]
            /\ queue' = Append(queue, [code |-> code[c], response_tx |-> c])
            /\ enqOrder' = Append(enqOrder, c)
  /\ UNCHANGED <<bridge, code, wpc, cur, result, engine,
                 execOrder, seen, sends, late>>
  /\ UNCHANGED platform

\* a future that starts over when its reply channel was closed
ReceiveRetry(c) ==
  /\ pc[c] = "waiting"
  /\ \/ /\ reply[c].val # NoVal
        /\ pc' = [pc EXCEPT ![c] =
                    IF reply[c].val[1] = "Success" THEN "ok" ELSE "jserr"]
     \/ /\ reply[c].val = NoVal
        /\ reply[c].tx = "dropped"
        /\ pc' = [pc EXCEPT ![c] = "created"]
  /\ UNCHANGED <<bridge, code, reply, queue, wpc, cur, result, engine,
                 enqOrder, execOrder, seen, sends, late>>
  /\ UNCHANGED platform

\* a future that reports a closed reply channel as a terminated runtime
ReceiveAsTerminated(c) ==
  /\ pc[c] = "waiting"
  /\ \/ /\ reply[c].val # NoVal
        /\ pc' = [pc EXCEPT ![c] =
                    IF reply[c].val[1] = "Success" THEN "ok" ELSE "jserr"]
     \/ /\ reply[c].val = NoVal
        /\ reply[c].tx = "dropped"
        /\ pc' = [pc EXCEPT ![c] = "terminated"]
  /\ UNCHANGED <<bridge, code, reply, queue, wpc, cur, result, engine,
                 enqOrder, execOrder, seen, sends, late>>
  /\ UNCHANGED platform

\* response_rx.await completes, and the response is converted
Receive(c) ==
  /\ pc[c] = "waiting"
  /\ \/ /\ reply[c].val # NoVal
        /\ pc' = [pc EXCEPT ![c] =
                    IF reply[c].val[1] = "Success" THEN "ok" ELSE "jserr"]
     \/ /\ reply[c].val = NoVal
        /\ reply[c].tx = "dropped"
        /\ pc' = [pc EXCEPT ![c] = "noresp"]
  /\ UNCHANGED <<bridge, code, reply, queue, wpc, cur, result, engine,
                 enqOrder, execOrder, seen, sends, late>>
  /\ UNCHANGED platform

\* the caller drops the future before it completed
Abandon(c) ==
  /\ pc[c] \in {"created", "waiting"}
  /\ pc' = [pc EXCEPT ![c] = "abandoned"]
  /\ reply' = [reply EXCEPT ![c].val = NoVal]
  /\ UNCHANGED <<bridge, code, queue, wpc, cur, result, engine,
                 enqOrder, execOrder, seen, sends, late>>
  /\ UNCHANGED platform

\* the Runtime object is dropped
DropBridge ==
  /\ bridge
  /\ bridge' = FALSE
  /\ UNCHANGED <<pc, code, reply, queue, wpc, cur, result, engine,
                 enqOrder, execOrder, seen, sends, late>>
  /\ UNCHANGED platform

\* ---- worker thread ----

\* a worker that creates its receiver anew when it is ready
WorkerInitFreshQueue ==
  /\ wpc = "init"
  /\ wpc' = "idle"
  /\ engine' = FreshEngine
  /\ queue' = <<>>
  /\ UNCHANGED <<bridge, pc, code, reply, cur, result,
                 enqOrder, execOrder, seen, sends, late>>
  /\ built' = built \cup {1}
  /\ UNCHANGED <<once, inits, tpc, spawned>>

\* the Tokio runtime and the JsRuntime are built
WorkerInit ==
  /\ wpc = "init"
  /\ wpc' = "idle"
  /\ engine' = FreshEngine
  /\ UNCHANGED <<bridge, pc, code, reply, queue, cur, result,
                 enqOrder, execOrder, seen, sends, late>>
  /\ built' = built \cup {1}
  /\ UNCHANGED <<once, inits, tpc, spawned>>

\* a command_rx whose drop leaks the queued commands
LeakQueued(r) == r

\* dropping command_rx drops the queued commands and their response_tx
DropQueued(r) ==
  [c \in Calls |->
     IF \E i \in 1..Len(queue) : queue[i].response_tx = c
       THEN [r[c] EXCEPT !.tx = "dropped"] ELSE r[c]]

\* building the Tokio runtime (expect) or the JsRuntime panics
WorkerInitFail ==
  /\ wpc = "init"
  /\ wpc' = "dead"
  /\ reply' = DropQueued(reply)
  /\ queue' = <<>>
  /\ UNCHANGED <<bridge, pc, code, cur, result, engine,
                 enqOrder, execOrder, seen, sends, late>>
  /\ UNCHANGED platform

\* a loop that takes the newest command instead of the oldest
WorkerRecvNewest ==
  /\ wpc = "idle"
  /\ queue # <<>>
  /\ cur' = queue[Len(queue)]
  /\ queue' = SubSeq(queue, 1, Len(queue) - 1)
  /\ wpc' = "exec"
  /\ UNCHANGED <<bridge, pc, code, reply, result, engine,
                 enqOrder, execOrder, seen, sends, late>>
  /\ UNCHANGED platform

\* a loop that takes the next command before the current one is answered
WorkerRecvEarly ==
  /\ wpc \in {"idle", "respond"}
  /\ queue # <<>>
  /\ cur' = Head(queue)
  /\ queue' = Tail(queue)
  /\ wpc' = "exec"
  /\ UNCHANGED <<bridge, pc, code, reply, result, engine,
                 enqOrder, execOrder, seen, sends, late>>
  /\ UNCHANGED platform

\* command_rx.recv().await returns Some(cmd)
WorkerRecv ==
  /\ wpc = "idle"
  /\ queue # <<>>
  /\ cur' = Head(queue)
  /\ queue' = Tail(queue)
  /\ wpc' = "exec"
  /\ UNCHANGED <<bridge, pc, code, reply, result, engine,
                 enqOrder, execOrder, seen, sends, late>>
  /\ UNCHANGED platform

\* a worker that builds a fresh JsRuntime after a script threw
WorkerExecuteReset ==
  /\ wpc = "exec"
  /\ ~ScriptPanics(cur.code)
  /\ engine' = IF ScriptResult(cur.code)[1] = "Err" THEN FreshEngine
               ELSE ApplyScript(engine, cur.code)
  /\ result' = ScriptResult(cur.code)
  /\ wpc' = "respond"
  /\ execOrder' = Append(execOrder, cur.response_tx)
  /\ seen' = [seen EXCEPT ![cur.response_tx] = engine]
  /\ UNCHANGED <<bridge, pc, code, reply, queue, cur,
                 enqOrder, sends, late>>
  /\ UNCHANGED platform

\* js_runtime.execute_script returns Ok or Err
WorkerExecute ==
  /\ wpc = "exec"
  /\ ~ScriptPanics(cur.code)
  /\ engine' = ApplyScript(engine, cur.code)
  /\ result' = ScriptResult(cur.code)
  /\ wpc' = "respond"
  /\ execOrder' = Append(execOrder, cur.response_tx)
  /\ seen' = [seen EXCEPT ![cur.response_tx] = engine]
  /\ UNCHANGED <<bridge, pc, code, reply, queue, cur,
                 enqOrder, sends, late>>
  /\ UNCHANGED platform

\* execute_script panics: the unwinding drops cmd's response_tx first
WorkerFault ==
  /\ wpc = "exec"
  /\ ScriptPanics(cur.code)
  /\ wpc' = "unwinding"
  /\ reply' = [reply EXCEPT ![cur.response_tx].tx = "dropped"]
  /\ cur' = NoCmd
  /\ execOrder' = Append(execOrder, cur.response_tx)
  /\ seen' = [seen EXCEPT ![cur.response_tx] = engine]
  /\ UNCHANGED <<bridge, pc, code, queue, result, engine,
                 enqOrder, sends, late>>
  /\ UNCHANGED platform

\* the unwinding then drops js_runtime and command_rx
WorkerUnwind ==
  /\ wpc = "unwinding"
  /\ wpc' = "dead"
  /\ engine' = NoEngine
  /\ reply' = DropQueued(reply)
  /\ queue' = <<>>
  /\ UNCHANGED <<bridge, pc, code, cur, result,
                 enqOrder, execOrder, seen, sends, late>>
  /\ UNCHANGED platform

\* a worker that answers only the scripts that returned
WorkerRespondOkOnly ==
  /\ wpc = "respond"
  /\ LET c == cur.response_tx IN
       IF result[1] = "Ok"
         THEN /\ reply' = [reply EXCEPT
                             ![c].tx = "sent",
                             ![c].val = IF pc[c] = "abandoned" THEN NoVal
                                        ELSE MakeResponse(result)]
              /\ sends' = [sends EXCEPT ![c] = @ + 1]
         ELSE /\ reply' = [reply EXCEPT ![c].tx = "dropped"]
              /\ UNCHANGED sends
  /\ wpc' = "idle"
  /\ cur' = NoCmd
  /\ result' = NoResult
  /\ UNCHANGED <<bridge, pc, code, queue, engine,
                 enqOrder, execOrder, seen, late>>
  /\ UNCHANGED platform

\* response_tx.send(response).unwrap(): panics when the receiver is gone
WorkerRespondUnwrap ==
  /\ wpc = "respond"
  /\ LET c == cur.response_tx IN
       /\ reply' = [reply EXCEPT
                      ![c].tx = "sent",
                      ![c].val = IF pc[c] = "abandoned" THEN NoVal
                                 ELSE MakeResponse(result)]
       /\ sends' = [sends EXCEPT ![c] = @ + 1]
       /\ wpc' = IF pc[c] = "abandoned" THEN "unwinding" ELSE "idle"
  /\ cur' = NoCmd
  /\ result' = NoResult
  /\ UNCHANGED <<bridge, pc, code, queue, engine,
                 enqOrder, execOrder, seen, late>>
  /\ UNCHANGED platform

\* let _ = response_tx.send(response)
WorkerRespond ==
  /\ wpc = "respond"
  /\ LET c == cur.response_tx IN
       /\ reply' = [reply EXCEPT
                      ![c].tx = "sent",
                      ![c].val = IF pc[c] = "abandoned" THEN NoVal
                                 ELSE MakeResponse(result)]
       /\ sends' = [sends EXCEPT ![c] = @ + 1]
  /\ wpc' = "idle"
  /\ cur' = NoCmd
  /\ result' = NoResult
  /\ UNCHANGED <<bridge, pc, code, queue, engine,
                 enqOrder, execOrder, seen, late>>
  /\ UNCHANGED platform

\* a loop that stops at closure and drops what is still queued
WorkerExitEarly ==
  /\ wpc = "idle"
  /\ Senders = 0
  /\ wpc' = "exited"
  /\ engine' = NoEngine
  /\ reply' = DropQueued(reply)
  /\ queue' = <<>>
  /\ UNCHANGED <<bridge, pc, code, cur, result,
                 enqOrder, execOrder, seen, sends, late>>
  /\ UNCHANGED platform

\* recv() returns None: no sender is left and the queue is empty
WorkerExit ==
  /\ wpc = "idle"
  /\ queue = <<>>
  /\ Senders = 0
  /\ wpc' = "exited"
  /\ engine' = NoEngine
  /\ UNCHANGED <<bridge, pc, code, reply, queue, cur, result,
                 enqOrder, execOrder, seen, sends, late>>
  /\ UNCHANGED platform

Worker ==
  \/ WorkerInit
  \/ WorkerInitFail
  \/ WorkerRecv
  \/ WorkerExecute
  \/ WorkerFault
  \/ WorkerUnwind
  \/ WorkerRespond
  \/ WorkerExit

Next ==
  \/ \E c \in Calls, s \in Scripts : Invoke(c, s)
  \/ \E c \in Calls : Enqueue(c)
  \/ \E c \in Calls : Receive(c)
  \/ \E c \in Calls : Abandon(c)
  \/ DropBridge
  \/ Worker

Spec == Init /\ [][Next]_vars

\* The worker is a thread of its own and the futures are tasks spawned on the
\* callers' executor: each keeps being scheduled. Nothing makes a caller
\* invoke, abandon a call or drop the Runtime.
Fairness ==
  /\ WF_vars(Worker)
  /\ \A c \in Calls : WF_vars(Enqueue(c)) /\ WF_vars(Receive(c))

FairSpec == Spec /\ Fairness

\* ---- construction: Runtime::new called by several threads ----

\* the state of one Runtime, its calls and its worker
runtime == <<bridge, pc, code, reply, queue, wpc, cur, result, engine,
             enqOrder, execOrder, seen, sends, late>>

\* no Runtime is constructed yet and the platform is not set up
PlatformInit ==
  /\ bridge = FALSE
  /\ pc = [c \in Calls |-> "new"]
  /\ code = [c \in Calls |-> NoCode]
  /\ reply = [c \in Calls |-> [tx |-> "none", val |-> NoVal]]
  /\ queue = <<>>
  /\ wpc = "init"
  /\ cur = NoCmd
  /\ result = NoResult
  /\ engine = NoEngine
  /\ enqOrder = <<>>
  /\ execOrder = <<>>
  /\ seen = [c \in Calls |-> NoEngine]
  /\ sends = [c \in Calls |-> 0]
  /\ late = {}
  /\ once = "uninit"
  /\ inits = 0
  /\ tpc = [t \in Threads |-> "start"]
  /\ spawned = {}
  /\ built = {}

\* a plain flag read before the setup and set after it
CallOnceUnguarded(t) ==
  /\ tpc[t] = "start"
  /\ IF once = "done"
       THEN tpc' = [tpc EXCEPT ![t] = "channel"] /\ once' = once
       ELSE tpc' = [tpc EXCEPT ![t] = "initializing"] /\ once' = "running"
  /\ UNCHANGED <<inits, spawned, built, runtime>>

\* ensure_v8_platform: OnceLock::get_or_init is entered
CallOnce(t) ==
  /\ tpc[t] = "start"
  /\ CASE once = "done" ->
            tpc' = [tpc EXCEPT ![t] = "channel"] /\ once' = once
       [] once = "uninit" ->
            tpc' = [tpc EXCEPT ![t] = "initializing"] /\ once' = "running"
       [] OTHER ->
            tpc' = [tpc EXCEPT ![t] = "blocked"] /\ once' = once
  /\ UNCHANGED <<inits, spawned, built, runtime>>

\* the closure runs JsRuntime::init_platform and the OnceLock is set
InitPlatform(t) ==
  /\ tpc[t] = "initializing"
  /\ inits' = inits + 1
  /\ once' = "done"
  /\ tpc' = [tpc EXCEPT ![t] = "channel"]
  /\ UNCHANGED <<spawned, built, runtime>>

\* get_or_init returns to a thread that waited for another thread's setup
Unblock(t) ==
  /\ tpc[t] = "blocked"
  /\ once = "done"
  /\ tpc' = [tpc EXCEPT ![t] = "channel"]
  /\ UNCHANGED <<once, inits, spawned, built, runtime>>

\* the channel is created, the worker thread is spawned, Runtime is returned
SpawnWorker(t) ==
  /\ tpc[t] = "channel"
  /\ spawned' = spawned \cup {t}
  /\ tpc' = [tpc EXCEPT ![t] = "returned"]
  /\ UNCHANGED <<once, inits, built, runtime>>

\* the worker thread of t's Runtime constructs its JsRuntime
BuildEngine(t) ==
  /\ t \in spawned \ built
  /\ built' = built \cup {t}
  /\ UNCHANGED <<once, inits, tpc, spawned, runtime>>

PlatformNext ==
  \/ \E t \in Threads : CallOnce(t)
  \/ \E t \in Threads : InitPlatform(t)
  \/ \E t \in Threads : Unblock(t)
  \/ \E t \in Threads : SpawnWorker(t)
  \/ \E t \in Threads : BuildEngine(t)

PlatformSpec == PlatformInit /\ [][PlatformNext]_vars

\* ---- properties ----

QueueIds == [i \in 1..Len(queue) |-> queue[i].response_tx]

\* the command the worker has dequeued and not yet started to execute
Dequeued == IF wpc = "exec" THEN <<cur.response_tx>> ELSE <<>>

NoDuplicates(s) == \A i, j \in 1..Len(s) : s[i] = s[j] => i = j

\* C1: the worker starts the commands in exactly the order the channel
\* accepted them: the executed commands are a prefix of the enqueue order
\* without repetition, and while the worker lives the accepted commands are
\* the executed ones, then the dequeued one, then the queue (none skipped).
C1_FifoOrder ==
  /\ Len(execOrder) <= Len(enqOrder)
  /\ execOrder = SubSeq(enqOrder, 1, Len(execOrder))
  /\ NoDuplicates(enqOrder)
  /\ wpc \notin {"unwinding", "dead"} =>
       enqOrder = execOrder \o Dequeued \o QueueIds

\* both calls were executed, in an enqueue order that is not the invocation order
C1_Witness ==
  /\ enqOrder = <<2, 1>>
  /\ execOrder = <<2, 1>>

\* the commands the worker holds: taken from the queue, reply sender unused
InFlight ==
  {c \in Calls : /\ reply[c].tx = "live"
                 /\ \A i \in 1..Len(queue) : queue[i].response_tx # c}

\* C2: at most one command is in the worker's hands at any time, it is the
\* worker's current command, and the worker is idle (has dequeued nothing)
\* unless it holds exactly that command: nothing is dequeued between the
\* start of a script and the sending of its response.
C2_OneAtATime ==
  /\ Cardinality(InFlight) <= 1
  /\ wpc \in {"exec", "respond"} => InFlight = {cur.response_tx}
  /\ wpc \notin {"exec", "respond"} => InFlight = {} /\ cur = NoCmd

\* the worker holds one command, has run its script, and another one is queued
C2_Witness ==
  /\ wpc = "respond"
  /\ Len(queue) = 1
  /\ InFlight = {1}

Accepted(c) == c \in Range(enqOrder)

\* C3: the reply sender of a command is used for at most one send; a
\* response is in a call's channel only by that one send and it is the
\* response to that call's own script; and every accepted command the worker
\* is done with was answered by exactly one send, unless the worker thread
\* ended (unwinding, dead) and dropped the sender instead.
C3_ExactlyOneResponse ==
  \A c \in Calls :
    /\ sends[c] <= 1
    /\ sends[c] = 1 <=> reply[c].tx = "sent"
    /\ reply[c].val # NoVal =>
         /\ sends[c] = 1
         /\ reply[c].val = MakeResponse(ScriptResult(code[c]))
    /\ (Accepted(c) /\ c \notin Range(QueueIds) /\ c \notin InFlight) =>
         \/ sends[c] = 1
         \/ /\ sends[c] = 0
            /\ reply[c].tx = "dropped"
            /\ wpc \in {"unwinding", "dead"}

\* one command was answered with an Error, and the other was dropped
\* unanswered by the worker that ended
C3_Witness ==
  /\ sends[1] = 1
  /\ reply[1].val = Error(FormatJsError("boom"))
  /\ Accepted(2)
  /\ sends[2] = 0
  /\ reply[2].tx = "dropped"

\* an outcome, once produced, is not replaced
OutcomeIsFinal == \A c \in Calls : pc[c] \in Terminal => pc'[c] = pc[c]

\* C4: every invoked call that its caller does not drop ends with one of
\* the four outcomes (ok, jserr, terminated, noresp), and an outcome, once
\* produced, is never replaced by another.
C4_CallTerminates ==
  /\ \A c \in Calls :
       (pc[c] = "created") ~> (pc[c] \in Terminal \cup {"abandoned"})
  /\ [][OutcomeIsFinal]_vars

\* one call ended with the engine's error, the other with no response
C4_Witness ==
  /\ pc[1] = "jserr"
  /\ pc[2] = "noresp"

\* C5: of two calls that are both executed, the one invoked first is
\* executed first (the calls are numbered in invocation order).
C5_InvocationOrder ==
  \A i, j \in 1..Len(execOrder) : execOrder[i] < execOrder[j] => i < j

\* a call invoked after the worker's end is never waiting or accepted
LateCallsFail ==
  \A c \in late :
    /\ pc[c] \in {"created", "terminated", "abandoned"}
    /\ ~Accepted(c)
    /\ c \notin Range(execOrder)

\* the enqueue step of a call after the worker's end
EnqueueAfterEnd ==
  \A c \in Calls :
    (WorkerEnded /\ pc[c] = "created" /\ pc'[c] # "created") =>
      /\ pc'[c] \in {"terminated", "abandoned"}
      /\ queue' = queue
      /\ enqOrder' = enqOrder

\* C6: once the worker thread has ended, a call's enqueue step fails with
\* "terminated" and accepts nothing; a call invoked after that is never
\* waiting, never ends with ok, jserr or noresp, and is never accepted or run.
C6_TerminatedAfterEnd ==
  /\ []LateCallsFail
  /\ [][EnqueueAfterEnd]_vars

\* a call invoked after the worker's end has failed with "terminated"
C6_Witness ==
  /\ 2 \in late
  /\ pc[2] = "terminated"
  /\ wpc = "dead"

\* the worker thread ended and dropped call c's reply sender unused
Orphaned(c) == Accepted(c) /\ reply[c].tx = "dropped"

OrphansGetNoResponse ==
  \A c \in Calls :
    Orphaned(c) =>
      /\ pc[c] \in {"waiting", "noresp", "abandoned"}
      /\ c \notin Range(QueueIds)
      /\ wpc \in {"unwinding", "dead"}

\* no retry, no new worker: an ending worker stays so and executes nothing
WorkerStaysEnded ==
  wpc \in {"unwinding", "dead"} =>
    /\ wpc' \in {"unwinding", "dead"}
    /\ execOrder' = execOrder
    /\ enqOrder' = enqOrder \/ wpc = "unwinding"

\* C7: a call whose accepted command lost its reply sender to the ending
\* worker is waiting, abandoned or ended with noresp, and if it waits it
\* gets noresp (unless dropped by its caller); its command is not queued,
\* accepted or executed again, and the worker, once ending, never runs again.
C7_NoResponseAfterFault ==
  /\ []OrphansGetNoResponse
  /\ [](NoDuplicates(enqOrder) /\ NoDuplicates(execOrder))
  /\ \A c \in Calls :
       (Orphaned(c) /\ pc[c] = "waiting") ~> (pc[c] \in {"noresp", "abandoned"})
  /\ [][WorkerStaysEnded]_vars

\* the worker faulted on call 1 with call 2 queued: both ended with noresp
C7_Witness ==
  /\ enqOrder = <<1, 2>>
  /\ execOrder = <<1>>
  /\ pc[1] = "noresp"
  /\ pc[2] = "noresp"

Last(s) == s[Len(s)]

\* the worker thread ends abnormally only at a panic: of the construction
\* (nothing executed) or of the last script started
EndedByPanicOnly ==
  wpc \in {"unwinding", "dead"} =>
    \/ execOrder = <<>>
    \/ code[Last(execOrder)] = "fault"

Threw == result # NoResult /\ result[1] = "Err"

\* the execute step of a script that throws goes on to the response
ThrowGoesToRespond ==
  (wpc = "exec" /\ wpc' # "exec" /\ cur.code = "incThrow") =>
    /\ wpc' = "respond"
    /\ Threw'

\* the response step after a throw touches the thrower's channel only
ErrorToOwnChannelOnly ==
  (wpc = "respond" /\ wpc' # "respond" /\ Threw) =>
    /\ wpc' = "idle"
    /\ queue' = queue
    /\ pc' = pc
    /\ reply'[cur.response_tx].val \in
         {NoVal, Error(FormatJsError(ThrowMsg(cur.code)))}
    /\ \A c \in Calls \ {cur.response_tx} : reply'[c] = reply[c]

\* C8: a script that throws leaves the worker in its loop: the execute step
\* goes on to the response, the response step puts an Error in that call's
\* channel only, touches no other call and returns to idle, the command at
\* the head of the queue is then executed, and the worker thread ends
\* abnormally only by a panic, never by a thrown error.
C8_ThrowIsLocal ==
  /\ []EndedByPanicOnly
  /\ [][ThrowGoesToRespond]_vars
  /\ [][ErrorToOwnChannelOnly]_vars
  /\ \A c \in Calls :
       (Threw /\ queue # <<>> /\ Head(queue).response_tx = c)
         ~> (c \in Range(execOrder))

\* call 1 threw and got the engine's error; call 2 ran after it and succeeded
C8_Witness ==
  /\ code[1] = "incThrow"
  /\ execOrder = <<1, 2>>
  /\ pc[1] = "jserr"
  /\ pc[2] = "ok"

\* dropping a future changes nothing of the worker, the queue or the engine
AbandonTouchesNoWorkerState ==
  \A c \in Calls :
    (pc[c] # "abandoned" /\ pc'[c] = "abandoned") =>
      /\ queue' = queue
      /\ wpc' = wpc
      /\ cur' = cur
      /\ engine' = engine
      /\ execOrder' = execOrder

\* an abandoned call's script is run with its effects
AbandonedStillRuns ==
  (wpc = "exec" /\ wpc' # "exec" /\ pc[cur.response_tx] = "abandoned"
     /\ cur.code # "fault") =>
    /\ wpc' = "respond"
    /\ engine' = ApplyScript(engine, cur.code)
    /\ execOrder' = Append(execOrder, cur.response_tx)

\* the send to an abandoned call's channel does nothing and the loop goes on
AbandonedSendIsNoOp ==
  (wpc = "respond" /\ wpc' # "respond" /\ pc[cur.response_tx] = "abandoned") =>
    /\ wpc' = "idle"
    /\ reply'[cur.response_tx].val = NoVal
    /\ sends'[cur.response_tx] = 1
    /\ queue' = queue

\* C9: dropping a call's future changes nothing of the worker, the queue or
\* the engine; the worker runs an abandoned call's script with its effects
\* like any other, its send leaves the channel empty and returns the worker
\* to idle; an abandoned command in the worker's hands, or first in the queue
\* of the idle worker, is executed and, unless its script panics, answered
\* by one send; the worker never ends on a drop.
C9_AbandonDoesNotCancel ==
  /\ []EndedByPanicOnly
  /\ [][AbandonTouchesNoWorkerState]_vars
  /\ [][AbandonedStillRuns]_vars
  /\ [][AbandonedSendIsNoOp]_vars
  /\ \A c \in Calls :
       (pc[c] = "abandoned"
          /\ \/ wpc \in {"exec", "respond"} /\ cur.response_tx = c
             \/ wpc = "idle" /\ queue # <<>> /\ Head(queue).response_tx = c)
         ~> (c \in Range(execOrder) /\ (sends[c] = 1 \/ code[c] = "fault"))

\* call 1 was abandoned, its script ran all the same (call 2 started from the
\* state it left), its response was discarded and call 2 was answered
C9_Witness ==
  /\ pc[1] = "abandoned"
  /\ code[1] = "inc"
  /\ execOrder = <<1, 2>>
  /\ seen[2] = 1
  /\ sends[1] = 1
  /\ reply[1].val = NoVal
  /\ pc[2] = "ok"

\* the engine state after the first n executed scripts, from a fresh engine
RECURSIVE EngineAfter(_)
EngineAfter(n) ==
  IF n = 0 THEN FreshEngine
  ELSE ApplyScript(EngineAfter(n - 1), code[execOrder[n]])

\* C10: the n-th executed script started from the state that the n-1 scripts
\* executed before it produce, applied in execution order to a fresh
\* engine, and the engine, while the worker has one, holds the state produced
\* by all executed scripts: nothing resets it, a throw included.
C10_StateAccumulates ==
  /\ \A n \in 1..Len(execOrder) : seen[execOrder[n]] = EngineAfter(n - 1)
  /\ engine # NoEngine => engine = EngineAfter(Len(execOrder))

\* the second script started from the state left by a first one that threw
C10_Witness ==
  /\ Len(execOrder) = 2
  /\ code[execOrder[1]] = "incThrow"
  /\ code[execOrder[2]] = "dbl"
  /\ seen[execOrder[2]] = 1
  /\ engine = 2

\* the text of the failure a call ended with (PyRuntimeError::new_err(error))
FailureText(c) == reply[c].val[2]

\* C11: a call that ended with ok ran a script of its own that returned; a
\* call that ended with jserr ran a script of its own that threw, and its
\* failure text contains that script's message; and a call whose script was
\* executed and returned ends, if it ends, with ok, and one whose script
\* threw with jserr: whatever the other calls are and however they interleave.
C11_OwnClassification ==
  \A c \in Calls :
    /\ pc[c] = "ok" =>
         /\ c \in Range(execOrder)
         /\ ScriptResult(code[c])[1] = "Ok"
    /\ pc[c] = "jserr" =>
         /\ c \in Range(execOrder)
         /\ code[c] = "incThrow"
         /\ \E i \in 1..Len(FailureText(c)) : FailureText(c)[i] = ThrowMsg(code[c])
    /\ (pc[c] \in Terminal /\ c \in Range(execOrder) /\ code[c] \in {"inc", "dbl"}) =>
         pc[c] = "ok"
    /\ (pc[c] \in Terminal /\ c \in Range(execOrder) /\ code[c] = "incThrow") =>
         pc[c] = "jserr"

\* the call that returned succeeded and the one that threw failed, the later
\* enqueued one being answered to its own caller
C11_Witness ==
  /\ code[1] = "inc"
  /\ code[2] = "incThrow"
  /\ enqOrder = <<2, 1>>
  /\ pc[1] = "ok"
  /\ pc[2] = "jserr"

\* the Runtime is dropped and no future holds a clone of command_tx
NoHandles == ~bridge /\ \A c \in Calls : pc[c] \notin {"created", "waiting"}

\* C12: once every sender handle is dropped and no call is pending, the
\* worker thread ends and releases the engine; from its idle position with
\* an empty queue it does so by leaving the loop (exited); and a worker that
\* left the loop holds no engine and no command.
C12_WorkerExitsOnClosure ==
  /\ NoHandles ~> (WorkerEnded /\ engine = NoEngine)
  /\ (NoHandles /\ wpc = "idle" /\ queue = <<>>) ~> (wpc = "exited")
  /\ [](wpc = "exited" => (engine = NoEngine /\ queue = <<>> /\ cur = NoCmd))

\* a call was served, every handle was dropped, and the worker left its loop
C12_Witness ==
  /\ pc[1] = "ok"
  /\ NoHandles
  /\ wpc = "exited"
  /\ engine = NoEngine

\* C13 as claimed: with every sender handle dropped, the idle worker observes
\* the closure and can leave its loop, whatever is still queued.
C13_ExitLeavesQueued ==
  (NoHandles /\ wpc = "idle") => ENABLED WorkerExit

\* C13 as amended: with every sender handle dropped and commands still
\* queued, the idle worker cannot leave its loop but takes the next command;
\* a worker that left its loop has executed and answered every accepted
\* command; only a worker that ends by a panic leaves commands unanswered.
C13_QueueDrainedBeforeExit ==
  /\ (NoHandles /\ wpc = "idle" /\ queue # <<>>) =>
       (~ENABLED WorkerExit /\ ENABLED WorkerRecv)
  /\ wpc = "exited" =>
       /\ execOrder = enqOrder
       /\ \A c \in Calls : Accepted(c) => sends[c] = 1
  /\ \A c \in Calls : Orphaned(c) => wpc \in {"unwinding", "dead"}

\* every handle is dropped while one command is in progress and one is queued
C13_Witness ==
  /\ NoHandles
  /\ wpc = "respond"
  /\ Len(queue) = 1

\* C14: whatever threads construct Runtimes concurrently, the platform
\* setup runs at most once and by one thread at a time; a thread is past
\* ensure_v8_platform (creating its channel, or returned) only when that one
\* setup has completed; and a worker is spawned, and builds its engine, only
\* after the setup has completed.
C14_SetupExactlyOnce ==
  /\ inits <= 1
  /\ Cardinality({t \in Threads : tpc[t] = "initializing"}) <= 1
  /\ \A t \in Threads :
       tpc[t] \in {"channel", "returned"} => (once = "done" /\ inits = 1)
  /\ (spawned # {} \/ built # {}) => (once = "done" /\ inits = 1)
  /\ built \subseteq spawned
  /\ once = "done" <=> inits = 1

\* one thread still waits inside get_or_init for the setup that another
\* thread ran, while a worker has already built its engine
C14_Witness ==
  /\ inits = 1
  /\ \E t \in Threads : tpc[t] = "blocked"
  /\ built # {}

\* C15: the Runtime that a construction returned is never one whose worker
\* failed to construct its execution context or its engine.
C15_ConstructionSurfacesFailure ==
  (bridge /\ tpc[1] = "returned") => ~(wpc = "dead" /\ 1 \notin built)

\* C16 as claimed: a call is in a terminal state only after it was Sent.
C16_TerminalOnlyFromSent ==
  \A c \in Calls : pc[c] \in Terminal => Accepted(c)

\* the transitions of a call's state
CallTransitions ==
  \A c \in Calls :
    pc'[c] # pc[c] =>
      \/ pc[c] = "new" /\ pc'[c] = "created"
      \/ pc[c] = "created" /\ pc'[c] = "waiting" /\ ~WorkerEnded
      \/ pc[c] = "created" /\ pc'[c] = "terminated" /\ WorkerEnded
      \/ pc[c] = "waiting" /\ pc'[c] \in {"ok", "jserr", "noresp"}
      \/ pc[c] \in {"created", "waiting"} /\ pc'[c] = "abandoned"

SentBeforeAnswer ==
  \A c \in Calls :
    /\ pc[c] \in {"waiting", "ok", "jserr", "noresp"} => Accepted(c)
    /\ pc[c] = "terminated" => ~Accepted(c)

\* C16 as amended: a call goes Created -> Sent -> {ok | jserr | noresp}, or
\* Created -> terminated directly when its enqueue finds the worker ended
\* (it was never Sent), or is dropped by its caller from Created or Sent;
\* no other transition happens, so terminal states never change.
C16_CallStateMachine ==
  /\ []SentBeforeAnswer
  /\ [][CallTransitions]_vars

\* one call ended from Sent and the other straight from Created
C16_Witness ==
  /\ pc[1] = "noresp"
  /\ pc[2] = "terminated"
  /\ ~Accepted(2)

\* the steps that change the engine, and the caller-side steps that do not
EngineFrame ==
  /\ (pc' # pc \/ bridge' # bridge \/ code' # code) =>
       (engine' = engine /\ wpc' = wpc /\ seen' = seen)
  /\ engine' # engine =>
       \/ wpc = "exec" /\ wpc' = "respond"
            /\ engine' = ApplyScript(engine, cur.code)
       \/ wpc = "init" /\ wpc' = "idle" /\ engine' = FreshEngine
       \/ wpc' \in {"dead", "exited"} /\ engine' = NoEngine

\* C17: every caller-side step (invoking, enqueueing, receiving, abandoning,
\* dropping the Runtime) leaves the engine state and the worker's position
\* unchanged; the engine state changes only by the worker's execute step, by
\* the worker's construction of it and by its release at the worker's end.
C17_EngineOwnedByWorker == [][EngineFrame]_vars

\* call 1's script changed the engine and its caller then received the
\* response while call 2 was sent: the engine holds what the script left
C17_Witness ==
  /\ execOrder = <<1>>
  /\ code[1] = "inc"
  /\ pc[1] = "ok"
  /\ pc[2] = "waiting"
  /\ engine = 1

\* C18: the enqueue step of a created call is always enabled, and while the
\* worker has not ended it puts the command in the queue and the call in
\* waiting, whatever the length of the queue and the position of the worker.
C18_EnqueueNeverBlocks ==
  \A c \in Calls :
    pc[c] = "created" =>
      /\ ENABLED Enqueue(c)
      /\ ~WorkerEnded =>
           ENABLED (Enqueue(c) /\ pc'[c] = "waiting"
                      /\ Len(queue') = Len(queue) + 1)

\* a call is about to be enqueued behind a queued command
C18_Witness ==
  /\ pc[2] = "created"
  /\ Len(queue) = 1
  /\ ~WorkerEnded

\* C19: a worker that left its loop did so with no sender left; while the
\* Runtime or any created or waiting call exists there is a sender, and the
\* idle worker cannot leave its loop.
C19_NoExitWhileHandles ==
  /\ wpc = "exited" => NoHandles
  /\ ~NoHandles => Senders >= 1
  /\ (wpc = "idle" /\ ~NoHandles) => ~ENABLED WorkerExit

\* the Runtime is dropped, the worker is idle with an empty queue, and a call
\* that was invoked is not yet enqueued
C19_Witness ==
  /\ ~bridge
  /\ wpc = "idle"
  /\ queue = <<>>
  /\ pc[1] = "created"

\* while the worker is not ready, what was accepted is what is queued
EarlyCommandsQueued ==
  wpc = "init" =>
    /\ QueueIds = enqOrder
    /\ execOrder = <<>>
    /\ \A c \in Calls : Accepted(c) => reply[c].tx = "live"

\* an enqueue before the worker is ready succeeds, and the construction of
\* the engine leaves the queue as it is
EarlyEnqueueKept ==
  /\ \A c \in Calls :
       (wpc = "init" /\ pc[c] = "created" /\ pc'[c] \notin {"created", "abandoned"}) =>
         /\ pc'[c] = "waiting"
         /\ queue' = Append(queue, [code |-> code[c], response_tx |-> c])
  /\ (wpc = "init" /\ wpc' = "idle") =>
       /\ queue' = queue
       /\ reply' = reply
       /\ engine' = FreshEngine

\* C20: commands are accepted while the worker is still building its engine
\* and stay queued in enqueue order; the step that completes the engine
\* leaves them queued; and once the engine exists the worker executes the
\* queue from its head, in enqueue order.
C20_EarlyCommandsWait ==
  /\ []EarlyCommandsQueued
  /\ [][EarlyEnqueueKept]_vars
  /\ []((wpc = "idle" /\ execOrder = <<>>) => QueueIds = enqOrder)
  /\ \A c \in Calls :
       (wpc = "idle" /\ queue # <<>> /\ Head(queue).response_tx = c)
         ~> (c \in Range(execOrder))

\* both calls were enqueued before the worker had its engine
C20_Witness ==
  /\ wpc = "init"
  /\ Len(queue) = 2
  /\ 1 \notin built

TypeOK ==
  /\ bridge \in BOOLEAN
  /\ \A c \in Calls : pc[c] \in PcValues
  /\ wpc \in {"init", "idle", "exec", "respond", "unwinding", "dead", "exited"}
  /\ engine \in {NoEngine} \cup (0..(EngineMod - 1))
====
